---- MODULE Spec2Model ----
(***************************************************************************)
(* anytemplate: the engine interface and its fallback implementation       *)
(* (src/anytemplate/engines/base.py), the compatibility helpers            *)
(* (src/anytemplate/compat.py) and, from the specification, the parts of   *)
(* the package that base.py calls or that build on it: the template        *)
(* search, the string-substitution adapter and the selector.               *)
(*                                                                         *)
(* Text is a sequence of one-character strings, a file holds a sequence of *)
(* bytes ("xC8", "x80" are the bytes 0xC8, 0x80; the other bytes are named *)
(* by their ASCII character).  A Python value is a record [type, data].    *)
(***************************************************************************)
EXTENDS Integers, Sequences, FiniteSets, TLC

VARIABLES engines, fs, locale, IS_PYTHON_3, last

vars == <<engines, fs, locale, IS_PYTHON_3, last>>

(* ------------------------------ bounds --------------------------------- *)

MaxLen == 2

MaxPaths == 2

(* --------------------------- Python values ----------------------------- *)

PyNone == [type |-> "NoneType", data |-> <<>>]

NoneCtx == [type |-> "NoneType", data |-> {}]

Text(s) == [type |-> "text", data |-> s]

Bytes(b) == [type |-> "bytes", data |-> b]

List(s) == [type |-> "list", data |-> s]

Dict(pairs) == [type |-> "dict", data |-> pairs]

Return(v) == [kind |-> "return", exc |-> "", val |-> v]

Raise(e) == [kind |-> "raise", exc |-> e, val |-> PyNone]

SeqsUpTo(S, n) == UNION {[1..k -> S] : k \in 0..n}

(* --------------------------- exceptions -------------------------------- *)

ExcBaseSwapped(cls) ==
    CASE cls = "TemplateNotFound" -> "Exception"
      [] cls = "CompileError" -> "TemplateNotFound"
      [] cls = "UnicodeDecodeError" -> "UnicodeError"
      [] cls = "UnicodeError" -> "ValueError"
      [] cls = "ValueError" -> "Exception"
      [] OTHER -> "object"

ExcBase(cls) ==
    CASE cls = "TemplateNotFound" -> "Exception"
      [] cls = "CompileError" -> "Exception"
      [] cls = "UnicodeDecodeError" -> "UnicodeError"
      [] cls = "UnicodeError" -> "ValueError"
      [] cls = "ValueError" -> "Exception"
      [] OTHER -> "object"

RECURSIVE IsSubclass(_, _)
IsSubclass(cls, handler) ==
    IF cls = handler THEN TRUE
    ELSE IF cls = "object" THEN FALSE
    ELSE IsSubclass(ExcBase(cls), handler)

Catches(handler, exc) == IsSubclass(exc, handler)

(* ------------------------ compat.py: encodings ------------------------- *)

Locales == {"en_US.UTF-8", "en_US.ISO8859-1", "C"}

ENCODING ==
    CASE locale = "en_US.UTF-8" -> "UTF-8"
      [] locale = "en_US.ISO8859-1" -> "ISO8859-1"
      [] OTHER -> "None"

getpreferredencoding ==
    CASE locale = "en_US.UTF-8" -> "UTF-8"
      [] locale = "en_US.ISO8859-1" -> "ISO8859-1"
      [] OTHER -> "ascii"

HighBytes == {"xC8", "x80"}

Latin1Char(b) ==
    CASE b = "xC8" -> "U+00C8"
      [] b = "x80" -> "U+0080"
      [] OTHER -> b

DecodeError == [ok |-> FALSE, data |-> <<>>]

RECURSIVE DecodeUtf8(_)
DecodeUtf8(b) ==
    IF b = <<>> THEN [ok |-> TRUE, data |-> <<>>]
    ELSE IF Head(b) \notin HighBytes
    THEN LET r == DecodeUtf8(Tail(b))
         IN  IF r.ok THEN [ok |-> TRUE, data |-> <<Head(b)>> \o r.data]
             ELSE DecodeError
    ELSE IF Head(b) = "xC8" /\ Len(b) >= 2 /\ b[2] = "x80"
    THEN LET r == DecodeUtf8(SubSeq(b, 3, Len(b)))
         IN  IF r.ok THEN [ok |-> TRUE, data |-> <<"U+0200">> \o r.data]
             ELSE DecodeError
    ELSE DecodeError

Decode(b, encoding) ==
    CASE encoding = "UTF-8" -> DecodeUtf8(b)
      [] encoding = "ISO8859-1" ->
           [ok |-> TRUE, data |-> [i \in 1..Len(b) |-> Latin1Char(b[i])]]
      [] OTHER ->
           IF \E i \in 1..Len(b) : b[i] \in HighBytes THEN DecodeError
           ELSE [ok |-> TRUE, data |-> b]

\* codecs.open(filepath, 'rb', encoding).read(): raw bytes without an
\* encoding, decoded text with one, UnicodeDecodeError on undecodable bytes.
copen(file, encoding) ==
    IF encoding = "None" THEN Return(Bytes(file))
    ELSE LET r == Decode(file, encoding)
         IN  IF r.ok THEN Return(Text(r.data)) ELSE Raise("UnicodeDecodeError")

\* open(tmpl).read(): Python 2 returns the bytes as they are, Python 3
\* decodes them with the locale's preferred encoding.
builtin_open(file) ==
    IF IS_PYTHON_3 THEN copen(file, getpreferredencoding)
    ELSE Return(Bytes(file))

(* --------------------- compat.py: file extensions ---------------------- *)

RECURSIVE rfind(_, _)
rfind(p, c) ==
    IF p = <<>> THEN 0
    ELSE IF p[Len(p)] = c THEN Len(p)
    ELSE rfind(SubSeq(p, 1, Len(p) - 1), c)

\* os.path.splitext(p)[-1]: from the last dot of the last path component,
\* unless only dots precede it in that component.
splitext_ext(p) ==
    LET sepIndex == rfind(p, "/")
        dotIndex == rfind(p, ".")
    IN  IF dotIndex > sepIndex
           /\ \E i \in (sepIndex + 1)..(dotIndex - 1) : p[i] # "."
        THEN SubSeq(p, dotIndex, Len(p))
        ELSE <<>>

get_file_extension(filepath) ==
    LET _ext == splitext_ext(filepath)
    IN  IF _ext # <<>>
        THEN (IF Head(_ext) = "." THEN Tail(_ext) ELSE _ext)
        ELSE <<>>

(* ------------------------------ engines -------------------------------- *)

TXT == <<"t", "x", "t">>

XZ == <<"x", "z">>

BaseEngine ==
    [name |-> "base", file_extensions |-> <<>>, supported |-> FALSE,
     priority |-> 99, impl |-> "fallback"]

StringEngine(sup) ==
    [name |-> "string", file_extensions |-> <<TXT>>, supported |-> sup,
     priority |-> 10, impl |-> "string"]

PlainEngine(sup) ==
    [name |-> "plain", file_extensions |-> <<TXT, XZ>>, supported |-> sup,
     priority |-> 5, impl |-> "fallback"]

EngineIds == {"base", "string", "plain"}

\* registration order of the adapters
Registry == <<"string", "plain">>

name(cls) == cls.name

file_extensions(cls) == cls.file_extensions

InList(x, l) == \E i \in 1..Len(l) : l[i] = x

supports_ext_only(cls, template_file) ==
    IF template_file.type = "NoneType" THEN cls.supported
    ELSE InList(get_file_extension(template_file.data), file_extensions(cls))

supports(cls, template_file) ==
    IF template_file.type = "NoneType" THEN cls.supported
    ELSE cls.supported
         /\ InList(get_file_extension(template_file.data), file_extensions(cls))

priority_of_base(cls) == BaseEngine.priority

priority(cls) == cls.priority

(* ---------------------------- file system ------------------------------- *)

Dirs == {".", "d1"}

TemplateName == "test.tmpl"

NoFile == [exists |-> FALSE, bytes |-> <<>>]

File(b) == [exists |-> TRUE, bytes |-> b]

FileContents == {<<"$", "a">>, <<"a">>, <<"xC8", "x80">>, <<"xC8">>}

FileOpts == {NoFile} \cup {File(b) : b \in FileContents}

NotFound == [found |-> FALSE, dir |-> ""]

\* The directories consulted: the given search paths in order, or the
\* template path taken as it is when none are given.
SearchDirs(at_paths) ==
    IF at_paths.type = "NoneType" \/ at_paths.data = <<>> THEN <<".">>
    ELSE at_paths.data

find_template_from_path(template, at_paths) ==
    LET paths == SearchDirs(at_paths)
        hits == {i \in 1..Len(paths) : fs[paths[i]].exists}
    IN  IF hits = {} THEN NotFound
        ELSE [found |-> TRUE,
              dir |-> paths[CHOOSE i \in hits : \A j \in hits : i <= j]]

(* ------------------------- fallback rendering -------------------------- *)

fallback_renders_truncating(template_content, context, at_paths, at_encoding, kwargs) ==
    Return([template_content EXCEPT !.data = IF @ = <<>> THEN <<>> ELSE <<Head(@)>>])

fallback_renders(template_content, context, at_paths, at_encoding, kwargs) ==
    Return(template_content)

\* try: copen(tmpl).read()  except UnicodeDecodeError: open(tmpl).read()
read_template(file) ==
    LET r == copen(file, ENCODING)
    IN  IF r.kind = "raise" /\ Catches("UnicodeDecodeError", r.exc)
        THEN builtin_open(file)
        ELSE r

read_template_enc(file, encoding) ==
    LET r == copen(file, encoding)
    IN  IF r.kind = "raise" /\ Catches("UnicodeDecodeError", r.exc)
        THEN builtin_open(file)
        ELSE r

fallback_render_empty_when_missing(template, context, at_paths, at_encoding, kwargs) ==
    LET tmpl == find_template_from_path(template, at_paths)
    IN  IF ~tmpl.found THEN Return(Text(<<>>))
        ELSE read_template(fs[tmpl.dir].bytes)

fallback_render_opens_template(template, context, at_paths, at_encoding, kwargs) ==
    LET tmpl == find_template_from_path(template, at_paths)
    IN  IF ~tmpl.found THEN Raise("TemplateNotFound")
        ELSE IF fs["."].exists THEN read_template(fs["."].bytes)
        ELSE Raise("IOError")

fallback_render_uses_at_encoding(template, context, at_paths, at_encoding, kwargs) ==
    LET tmpl == find_template_from_path(template, at_paths)
    IN  IF ~tmpl.found THEN Raise("TemplateNotFound")
        ELSE read_template_enc(fs[tmpl.dir].bytes, at_encoding)

fallback_render(template, context, at_paths, at_encoding, kwargs) ==
    LET tmpl == find_template_from_path(template, at_paths)
    IN  IF ~tmpl.found THEN Raise("TemplateNotFound")
        ELSE read_template(fs[tmpl.dir].bytes)

(* ------------------- string-substitution adapter ----------------------- *)

IdChars == {"a", "b", "_"}

RECURSIVE IdPrefix(_)
IdPrefix(s) ==
    IF s = <<>> \/ Head(s) \notin IdChars THEN <<>>
    ELSE <<Head(s)>> \o IdPrefix(Tail(s))

Keys(context) == {p[1] : p \in context.data}

Lookup(context, key) == (CHOOSE p \in context.data : p[1] = key)[2]

SubstFail(why) == [ok |-> FALSE, data |-> <<>>, why |-> why]

\* string.Template(s).substitute(context): "$$" is an escaped "$",
\* "$identifier" is replaced by the context's value, any other "$" is an
\* invalid placeholder.
RECURSIVE substitute(_, _)
substitute(s, context) ==
    IF s = <<>> THEN [ok |-> TRUE, data |-> <<>>, why |-> ""]
    ELSE IF Head(s) # "$"
    THEN LET r == substitute(Tail(s), context)
         IN  IF r.ok THEN [r EXCEPT !.data = <<Head(s)>> \o @] ELSE r
    ELSE IF Len(s) >= 2 /\ s[2] = "$"
    THEN LET r == substitute(SubSeq(s, 3, Len(s)), context)
         IN  IF r.ok THEN [r EXCEPT !.data = <<"$">> \o @] ELSE r
    ELSE LET id == IdPrefix(Tail(s))
         IN  IF id = <<>> THEN SubstFail("ValueError")
             ELSE IF context.type = "NoneType" THEN SubstFail("TypeError")
             ELSE IF id \notin Keys(context) THEN SubstFail("KeyError")
             ELSE LET r == substitute(SubSeq(s, Len(id) + 2, Len(s)), context)
                  IN  IF r.ok THEN [r EXCEPT !.data = Lookup(context, id) \o @]
                      ELSE r

string_renders_impl(template_content, context, at_paths, at_encoding, kwargs) ==
    LET r == substitute(template_content.data, context)
    IN  IF r.ok THEN Return([template_content EXCEPT !.data = r.data])
        ELSE IF kwargs.safe THEN Return(template_content)
        ELSE Raise("CompileError")

string_render_impl(template, context, at_paths, at_encoding, kwargs) ==
    LET tmpl == find_template_from_path(template, at_paths)
    IN  IF ~tmpl.found THEN Raise("TemplateNotFound")
        ELSE LET c == read_template(fs[tmpl.dir].bytes)
             IN  IF c.kind = "raise" THEN c
                 ELSE string_renders_impl(c.val, context, at_paths, at_encoding, kwargs)

(* ----------------------- BaseEngine.renders/render --------------------- *)

renders_impl(cls, template_content, context, at_paths, at_encoding, kwargs) ==
    IF cls.impl = "string"
    THEN string_renders_impl(template_content, context, at_paths, at_encoding, kwargs)
    ELSE fallback_renders(template_content, context, at_paths, at_encoding, kwargs)

render_impl(cls, template, context, at_paths, at_encoding, kwargs) ==
    IF cls.impl = "string"
    THEN string_render_impl(template, context, at_paths, at_encoding, kwargs)
    ELSE fallback_render(template, context, at_paths, at_encoding, kwargs)

renders_drops_kwargs(cls, template_content, context, at_paths, at_encoding, kwargs) ==
    renders_impl(cls, template_content, context, at_paths, at_encoding,
                 [safe |-> FALSE])

renders(cls, template_content, context, at_paths, at_encoding, kwargs) ==
    renders_impl(cls, template_content, context, at_paths, at_encoding, kwargs)

render_as_content(cls, template, context, at_paths, at_encoding, kwargs) ==
    renders_impl(cls, Text(<<template>>), context, at_paths, at_encoding, kwargs)

render(cls, template, context, at_paths, at_encoding, kwargs) ==
    render_impl(cls, template, context, at_paths, at_encoding, kwargs)

(* ------------------------------ selector ------------------------------- *)

NoEngine == [found |-> FALSE, engine |-> "base"]

\* The supported adapters claiming the file's extension, best first:
\* ascending priority, registration order among equals.
find_by_file(template_file) ==
    LET cands == {i \in 1..Len(Registry) :
                    supports(engines[Registry[i]], template_file)}
        Before(i, j) ==
            \/ priority(engines[Registry[i]]) < priority(engines[Registry[j]])
            \/ /\ priority(engines[Registry[i]]) = priority(engines[Registry[j]])
               /\ i <= j
    IN  IF cands = {} THEN NoEngine
        ELSE [found |-> TRUE,
              engine |-> Registry[CHOOSE i \in cands : \A j \in cands : Before(i, j)]]

(* ------------------------------- calls --------------------------------- *)

\* File paths handed to supports() and to the selector.
FilePaths ==
    { <<"/", "a", "/", "b", "/", "c">>,
      <<"/", "a", "/", "b", ".", "t", "x", "t">>,
      <<"/", "a", "/", "b", "/", "c", ".", "t", "a", "r", ".", "x", "z">>,
      <<"a", ".", "t", "x", "t", "/", "c">>,
      <<".", "t", "x", "t">>,
      <<"t", "x", "t">>,
      <<"c", ".">>,
      <<"c", ".", "T", "X", "T">> }

TemplateFiles == {PyNone} \cup {Text(p) : p \in FilePaths}

ContentChars == {"a", "$"}

Contents == {Text(s) : s \in SeqsUpTo(ContentChars, MaxLen)}

Contexts == {NoneCtx, Dict({}), Dict({<< <<"a">>, <<"b">> >>})}

AtPaths == {PyNone} \cup {List(s) : s \in SeqsUpTo(Dirs, MaxPaths)}

AtPathsInline == {PyNone, List(<<"d1">>)}

AtEncodings == {"UTF-8", "ISO8859-1"}

Options == {[safe |-> FALSE], [safe |-> TRUE]}

NoCall ==
    [op |-> "none", engine |-> "base", file |-> PyNone, content |-> PyNone,
     context |-> NoneCtx, at_paths |-> PyNone, at_encoding |-> "None",
     kwargs |-> [safe |-> FALSE], out |-> Return(PyNone)]

Idle == last.op = "none"

Name ==
    /\ Idle
    /\ \E e \in EngineIds :
         last' = [NoCall EXCEPT !.op = "name", !.engine = e,
                                !.out = Return(name(engines[e]))]
    /\ UNCHANGED <<engines, fs, locale, IS_PYTHON_3>>

FileExtensions ==
    /\ Idle
    /\ \E e \in EngineIds :
         last' = [NoCall EXCEPT !.op = "file_extensions", !.engine = e,
                                !.out = Return(file_extensions(engines[e]))]
    /\ UNCHANGED <<engines, fs, locale, IS_PYTHON_3>>

SupportsCaching ==
    /\ Idle
    /\ \E e \in EngineIds, f \in TemplateFiles :
         /\ last' = [NoCall EXCEPT !.op = "supports", !.engine = e, !.file = f,
                                   !.out = Return(supports(engines[e], f))]
         /\ engines' = [engines EXCEPT ![e].supported = supports(engines[e], f)]
    /\ UNCHANGED <<fs, locale, IS_PYTHON_3>>

Supports ==
    /\ Idle
    /\ \E e \in EngineIds, f \in TemplateFiles :
         last' = [NoCall EXCEPT !.op = "supports", !.engine = e, !.file = f,
                                !.out = Return(supports(engines[e], f))]
    /\ UNCHANGED <<engines, fs, locale, IS_PYTHON_3>>

Priority ==
    /\ Idle
    /\ \E e \in EngineIds :
         last' = [NoCall EXCEPT !.op = "priority", !.engine = e,
                                !.out = Return(priority(engines[e]))]
    /\ UNCHANGED <<engines, fs, locale, IS_PYTHON_3>>

Renders ==
    /\ Idle
    /\ \E e \in EngineIds, c \in Contents, ctx \in Contexts,
          ps \in AtPathsInline, enc \in {ENCODING, "UTF-8"},
          kw \in Options :
         last' = [NoCall EXCEPT !.op = "renders", !.engine = e, !.content = c,
                                !.context = ctx, !.at_paths = ps,
                                !.at_encoding = enc, !.kwargs = kw,
                                !.out = renders(engines[e], c, ctx, ps, enc, kw)]
    /\ UNCHANGED <<engines, fs, locale, IS_PYTHON_3>>

Render ==
    /\ Idle
    /\ \E e \in EngineIds, ctx \in Contexts, ps \in AtPaths,
          enc \in AtEncodings \cup {ENCODING}, kw \in Options :
         last' = [NoCall EXCEPT !.op = "render", !.engine = e,
                                !.file = Text(TemplateName),
                                !.context = ctx, !.at_paths = ps,
                                !.at_encoding = enc, !.kwargs = kw,
                                !.out = render(engines[e], TemplateName, ctx,
                                               ps, enc, kw)]
    /\ UNCHANGED <<engines, fs, locale, IS_PYTHON_3>>

Select ==
    /\ Idle
    /\ \E f \in TemplateFiles \ {PyNone} :
         last' = [NoCall EXCEPT !.op = "select", !.file = f,
                                !.out = Return(find_by_file(f))]
    /\ UNCHANGED <<engines, fs, locale, IS_PYTHON_3>>

\* The caller takes the result (or handles the exception) and goes on.
Done ==
    /\ ~Idle
    /\ last' = NoCall
    /\ UNCHANGED <<engines, fs, locale, IS_PYTHON_3>>

Init ==
    /\ \E s1 \in BOOLEAN, s2 \in BOOLEAN :
         engines = [e \in EngineIds |->
                      CASE e = "string" -> StringEngine(s1)
                        [] e = "plain" -> PlainEngine(s2)
                        [] OTHER -> BaseEngine]
    /\ fs \in [Dirs -> FileOpts]
    /\ locale \in Locales
    /\ IS_PYTHON_3 \in BOOLEAN
    /\ last = NoCall

Next ==
    \/ Name
    \/ FileExtensions
    \/ Supports
    \/ Priority
    \/ Renders
    \/ Render
    \/ Select
    \/ Done

Spec == Init /\ [][Next]_vars

(* ------------------------------ claims --------------------------------- *)

LastIndexOf(p, c) ==
    LET S == {i \in 1..Len(p) : p[i] = c}
    IN  IF S = {} THEN 0 ELSE CHOOSE i \in S : \A j \in S : j <= i

\* The extension of a file path: what follows the last dot of its last
\* component, when something other than dots precedes that dot there.
ExtensionOf(p) ==
    LET slash == LastIndexOf(p, "/")
        dot == LastIndexOf(p, ".")
    IN  IF dot > slash /\ \E i \in (slash + 1)..(dot - 1) : p[i] # "."
        THEN SubSeq(p, dot + 1, Len(p))
        ELSE <<>>

Declared(e) == {engines[e].file_extensions[i] : i \in DOMAIN engines[e].file_extensions}

\* The content of a file as the process reads it: its bytes when the locale
\* names no encoding, the decoded text when it does, the bytes again when
\* they do not decode and the interpreter is Python 2.
FileContent(b) ==
    IF ENCODING = "None" THEN [ok |-> TRUE, val |-> Bytes(b)]
    ELSE IF Decode(b, ENCODING).ok
    THEN [ok |-> TRUE, val |-> Text(Decode(b, ENCODING).data)]
    ELSE IF ~IS_PYTHON_3 THEN [ok |-> TRUE, val |-> Bytes(b)]
    ELSE [ok |-> FALSE, val |-> PyNone]

\* The positions of the directories of the search configuration of the last
\* call that hold the template.
Holding == {i \in 1..Len(SearchDirs(last.at_paths)) : fs[SearchDirs(last.at_paths)[i]].exists}

FirstHolding == SearchDirs(last.at_paths)[CHOOSE i \in Holding : \A j \in Holding : i <= j]

DollarsBefore(s, i) ==
    LET S == {k \in 0..(i - 1) : \A j \in (i - k)..(i - 1) : s[j] = "$"}
    IN  CHOOSE k \in S : \A m \in S : m <= k

\* s references a variable the context does not define: an unescaped "$"
\* followed by an identifier that is no key of the context.
ReferencesAbsent(s, context) ==
    \E i \in 1..(Len(s) - 1) :
       /\ s[i] = "$"
       /\ DollarsBefore(s, i) % 2 = 0
       /\ s[i + 1] \in IdChars
       /\ \/ context.type = "NoneType"
          \/ IdPrefix(SubSeq(s, i + 1, Len(s))) \notin Keys(context)

HasMarker(s) == \E i \in 1..Len(s) : s[i] = "$"

\* C1: supports(template_file) is true iff the engine's supported flag is
\* true and the file's extension is one of its declared file_extensions;
\* supports() without a file returns the supported flag.
C1_SupportsIffAvailableAndExtension ==
    last.op = "supports" =>
        last.out = Return(IF last.file.type = "NoneType"
                          THEN engines[last.engine].supported
                          ELSE /\ engines[last.engine].supported
                               /\ ExtensionOf(last.file.data) \in Declared(last.engine))

C1_Witness ==
    /\ last.op = "supports"
    /\ last.file.type = "text"
    /\ last.out = Return(TRUE)

\* C2: renders on the fallback (base) engine returns the content unchanged,
\* whatever the context, search paths, encoding and options.
C2_FallbackRendersIdentity ==
    (last.op = "renders" /\ last.engine = "base") => last.out = Return(last.content)

C2_Witness ==
    /\ last.op = "renders"
    /\ last.engine = "base"
    /\ last.context.type = "NoneType"
    /\ last.content.data = <<"$", "a">>
    /\ last.kwargs.safe
    /\ last.at_paths.type = "list"
    /\ last.out = Return(last.content)

\* C3: render of a template that no directory of the search configuration
\* holds raises TemplateNotFound and returns nothing.
C3_MissingRaisesTemplateNotFound ==
    (last.op = "render" /\ Holding = {}) => last.out = Raise("TemplateNotFound")

C3_Witness ==
    /\ last.op = "render"
    /\ last.at_paths = List(<<"d1">>)
    /\ ~fs["d1"].exists
    /\ fs["."].exists
    /\ last.out = Raise("TemplateNotFound")

\* C4: the string-substitution adapter, given content that references a
\* variable absent from the context, raises CompileError without safe mode
\* and returns the original content with it.
C4_StringAbsentVariable ==
    /\ (/\ last.op = "renders"
        /\ last.engine = "string"
        /\ ReferencesAbsent(last.content.data, last.context))
       => last.out = (IF last.kwargs.safe THEN Return(last.content)
                      ELSE Raise("CompileError"))
    /\ (/\ last.op = "render"
        /\ last.engine = "string"
        /\ Holding # {}
        /\ FileContent(fs[FirstHolding].bytes).ok
        /\ ReferencesAbsent(FileContent(fs[FirstHolding].bytes).val.data, last.context))
       => last.out = (IF last.kwargs.safe
                      THEN Return(FileContent(fs[FirstHolding].bytes).val)
                      ELSE Raise("CompileError"))

C4_Witness ==
    /\ last.op = "renders"
    /\ last.engine = "string"
    /\ last.content.data = <<"$", "a">>
    /\ last.context = Dict({})
    /\ last.kwargs.safe
    /\ last.out = Return(last.content)

\* C5: the selector returns, among the supported adapters whose
\* file_extensions contain the file's extension, one of lowest priority
\* value; of two such adapters with priorities 5 and 10, the one with 5.
C5_SelectorLowestPriority ==
    last.op = "select" =>
        LET cands == {e \in {Registry[i] : i \in DOMAIN Registry} :
                        /\ engines[e].supported
                        /\ ExtensionOf(last.file.data) \in Declared(e)}
            got == last.out.val
        IN  IF cands = {} THEN ~got.found
            ELSE /\ got.found
                 /\ got.engine \in cands
                 /\ \A c \in cands : engines[got.engine].priority <= engines[c].priority

C5_Witness ==
    /\ last.op = "select"
    /\ engines["string"].supported /\ engines["string"].priority = 10
    /\ engines["plain"].supported /\ engines["plain"].priority = 5
    /\ ExtensionOf(last.file.data) \in Declared("string") \cap Declared("plain")
    /\ last.out.val.engine = "plain"

C7_ErrorsDistinguishable ==
    /\ (last.op = "render" /\ Holding = {})
       => /\ last.out.kind = "raise"
          /\ Catches("TemplateNotFound", last.out.exc)
          /\ ~Catches("CompileError", last.out.exc)
    /\ (/\ last.op = "renders"
        /\ last.engine = "string"
        /\ ~last.kwargs.safe
        /\ ~substitute(last.content.data, last.context).ok)
       => /\ last.out.kind = "raise"
          /\ Catches("CompileError", last.out.exc)
          /\ ~Catches("TemplateNotFound", last.out.exc)
    /\ (/\ last.op = "render"
        /\ last.engine = "string"
        /\ ~last.kwargs.safe
        /\ Holding # {}
        /\ FileContent(fs[FirstHolding].bytes).ok
        /\ ~substitute(FileContent(fs[FirstHolding].bytes).val.data, last.context).ok)
       => /\ last.out.kind = "raise"
          /\ Catches("CompileError", last.out.exc)
          /\ ~Catches("TemplateNotFound", last.out.exc)

C7_Witness ==
    /\ last.op = "render"
    /\ last.engine = "string"
    /\ Holding # {}
    /\ last.out = Raise("CompileError")

C9_DescriptorsImmutable == [][engines' = engines]_vars

C9_Witness ==
    /\ last.op = "render"
    /\ last.out.kind = "raise"
    /\ engines["base"] = BaseEngine
    /\ engines["string"] = StringEngine(TRUE)

\* C10: on the fallback engine the outcome of render depends on the
\* template, at_paths and the files alone: every choice of context,
\* at_encoding and options gives the outcome of the last call.
C10_RenderIgnoresContextEncodingOptions ==
    (last.op = "render" /\ engines[last.engine].impl = "fallback")
    => \A ctx \in Contexts, enc \in AtEncodings \cup {ENCODING}, kw \in Options :
         render(engines[last.engine], TemplateName, ctx, last.at_paths, enc, kw)
           = last.out

C10_Witness ==
    /\ last.op = "render"
    /\ last.engine = "base"
    /\ locale = "en_US.UTF-8"
    /\ last.at_encoding = "ISO8859-1"
    /\ last.context.type = "dict"
    /\ last.kwargs.safe
    /\ last.out = Return(Text(<<"U+0200">>))

====
